---- MODULE Spec2Model ----
(***************************************************************************)
(* County-level data collection scripts: "Business Index/main.py" (BEA     *)
(* GDP figures) and "EducationIndex/main.py" (Census ACS figures).         *)
(*                                                                         *)
(* Each script resolves the counties of a state, fetches one payload per   *)
(* county (and, for BEA, per metric) through a bounded retry loop,         *)
(* collects one DataFrame per successful fetch, concatenates them and      *)
(* writes a spreadsheet.  The model covers a call of process_state in      *)
(* either script, and direct calls of the two fetchers and of the          *)
(* geography resolver.                                                     *)
(*                                                                         *)
(* Python's None and Optional values are modelled as sequences of length   *)
(* at most one: None is <<>> and a value x is <<x>>.                       *)
(***************************************************************************)
EXTENDS Integers, Sequences, FiniteSets, TLC

VARIABLES
    entry,                 \* which function is called from outside
    pipeline,              \* "BEA" (Business Index) or "EDU" (EducationIndex)
    state,                 \* argument state
    api_key,               \* argument api_key
    county_name,           \* argument county_name of a direct census fetch
    max_retries,           \* argument max_retries of the fetcher
    responses,             \* direct fetcher call: what the provider answers, in order
    payloadRecords,        \* number of records in a non-empty Data list of this run
    pc,                    \* position in the called function
    county_population_df,  \* process_state: the resolved county list
    idx,                   \* process_state: index of the county being iterated
    metric,                \* process_state: index of the metric fetched next
    all_county_data,       \* process_state: the collected DataFrames
    final_df,              \* process_state: the concatenated table
    artifact,              \* the spreadsheet written by to_excel
    dirCreated,            \* the output folder was created by os.makedirs
    status,                \* the last message printed by process_state
    requests,              \* number of GET requests issued
    sleeps,                \* number of time.sleep calls made
    result,                \* return value of a direct call
    fetchLog,              \* process_state: one entry per completed fetcher call
    retriedCalls           \* process_state: fetcher calls that issued a second request

vars == << entry, pipeline, state, api_key, county_name, max_retries, responses,
           payloadRecords, pc, county_population_df, idx, metric,
           all_county_data, final_df, artifact, dirCreated, status, requests,
           sleeps, result, fetchLog, retriedCalls >>

-----------------------------------------------------------------------------
(* Bounds of the model *)

\* Largest max_retries passed to a direct fetcher call.
MaxRetries == 3

\* Largest number of records in a non-empty BEA Data list.
MaxRecords == 2

\* Largest number of retry sleeps in one run of process_state.
MaxSleeps == 2

-----------------------------------------------------------------------------
(* Program constants *)

DELAWARE_COUNTIES == << "New Castle", "Kent", "Sussex" >>

BEA_LINE_CODE_GDP == 10

BEA_LINE_CODE_GDP_CAPITA == 70

BEA_LINE_CODE_ANNUAL_GDP_GROWTH == 95

\* Default of the max_retries parameter of both fetchers.
DefaultMaxRetries == 3

None == << >>

Some(x) == << x >>

\* The API key values tried: no key (None), the empty string, a key.
NoKey == "<None>"

Keys == { NoKey, "", "KEY" }

States == { "Delaware", "Ohio", "delaware" }

-----------------------------------------------------------------------------
(* What the provider can answer to one GET request.                        *)
(*   exc: the exception the attempt raises, "none" when the body parses:   *)
(*     RequestException  requests.get or raise_for_status failed           *)
(*     JSONDecodeError   response.json() could not parse the body          *)
(*     TypeError         the parsed body is no container (JSON null, a     *)
(*                       number), so the membership test or len() raises   *)
(*   BEAAPI, Results, Data, Error: which keys the BEA body holds; Data is  *)
(*     "missing", "empty" (an empty list) or "rows" (a non-empty list).    *)
(*   len, header: the Census body's length and whether its header row      *)
(*     names columns.                                                      *)
(***************************************************************************)

BeaRaise(e) ==
    [ exc |-> e, BEAAPI |-> FALSE, Results |-> FALSE, Data |-> "missing", Error |-> FALSE ]

BeaJson(b, r, d, e) ==
    [ exc |-> "none", BEAAPI |-> b, Results |-> r, Data |-> d, Error |-> e ]

BeaResponses ==
    { BeaRaise("RequestException"),
      BeaRaise("JSONDecodeError"),
      BeaRaise("TypeError"),
      BeaJson(FALSE, FALSE, "missing", FALSE),
      BeaJson(TRUE, FALSE, "missing", FALSE),
      BeaJson(TRUE, TRUE, "missing", TRUE),
      BeaJson(TRUE, TRUE, "missing", FALSE),
      BeaJson(TRUE, TRUE, "empty", FALSE),
      BeaJson(TRUE, TRUE, "rows", FALSE) }

CensusRaise(e) == [ exc |-> e, len |-> 0, header |-> "empty" ]

CensusJson(n, h) == [ exc |-> "none", len |-> n, header |-> h ]

CensusResponses ==
    { CensusRaise("RequestException"),
      CensusRaise("JSONDecodeError"),
      CensusRaise("TypeError"),
      CensusJson(1, "columns"),
      CensusJson(2, "empty"),
      CensusJson(2, "columns") }

\* The outcome of one attempt: return a value, or go on to the retry decision.
Return(ret, msg) == [ act |-> "return", ret |-> ret, msg |-> msg ]

Retry(msg) == [ act |-> "retry", ret |-> None, msg |-> msg ]

\* The outcome of a fetcher call: the value returned, the last message
\* printed, the GET requests issued and the sleeps made.
FetchResult(ret, msg, nreq, nsleep) ==
    [ ret |-> ret, msg |-> msg, requests |-> nreq, sleeps |-> nsleep ]

\* Variant of AfterRetry: the next iteration starts without time.sleep.
AfterRetryNoSleep(r) ==
    [ ret |-> r.ret, msg |-> r.msg, requests |-> r.requests + 1, sleeps |-> r.sleeps ]

\* time.sleep(retry_delay), then the next iteration: one more sleep and one
\* more request than the rest of the loop makes.
AfterRetry(r) ==
    [ ret |-> r.ret, msg |-> r.msg, requests |-> r.requests + 1, sleeps |-> r.sleeps + 1 ]

-----------------------------------------------------------------------------
(* Business Index: get_bea_data *)

\* Variant of bea_try: a body of unexpected format is retried like a
\* malformed one.
bea_try_retry_on_format(response) ==
    IF response.exc = "RequestException" THEN Retry("API request failed")
    ELSE IF response.exc = "JSONDecodeError" THEN Retry("JSONDecodeError")
    ELSE IF response.exc # "none" THEN Return(None, "An unexpected error occurred")
    ELSE IF response.BEAAPI /\ response.Results
         THEN IF response.Data # "missing" THEN Return(Some(response.Data), "")
              ELSE IF response.Error THEN Return(None, "BEA API Error")
              ELSE Retry("Unexpected data format: No 'Data' or 'Error' in Results.")
    ELSE Retry("Unexpected data format in BEA API response.")

\* The body of one iteration of the retry loop, up to the retry decision.
bea_try(response) ==
    IF response.exc = "RequestException" THEN Retry("API request failed")
    ELSE IF response.exc = "JSONDecodeError" THEN Retry("JSONDecodeError")
    ELSE IF response.exc # "none" THEN Return(None, "An unexpected error occurred")
    ELSE IF response.BEAAPI /\ response.Results
         THEN IF response.Data # "missing" THEN Return(Some(response.Data), "")
              ELSE IF response.Error THEN Return(None, "BEA API Error")
              ELSE Return(None, "Unexpected data format: No 'Data' or 'Error' in Results.")
    ELSE Return(None, "Unexpected data format in BEA API response.")

\* Variant of bea_should_retry: gives up one attempt early.
bea_should_retry_early_stop(attempt, retries) == attempt < retries - 2

\* if attempt < max_retries - 1: sleep and go round again, else give up.
bea_should_retry(attempt, retries) == attempt < retries - 1

RECURSIVE bea_loop(_, _, _)
\* for attempt in range(max_retries): ...; return None
bea_loop(attempt, retries, answers) ==
    IF ~(attempt < retries) THEN FetchResult(None, "", 0, 0)
    ELSE LET t == bea_try(answers[attempt + 1]) IN
         IF t.act = "return" THEN FetchResult(t.ret, t.msg, 1, 0)
         ELSE IF bea_should_retry(attempt, retries)
              THEN AfterRetry(bea_loop(attempt + 1, retries, answers))
              ELSE FetchResult(None, "Max retries reached", 1, 0)

\* Variant of get_bea_data: max_retries counted as retries after a first attempt.
get_bea_data_one_more(retries, answers) == bea_loop(0, retries + 1, answers)

get_bea_data(retries, answers) == bea_loop(0, retries, answers)

-----------------------------------------------------------------------------
(* EducationIndex: get_census_data_by_county *)

\* fips_codes.get(county_name)
fips_codes(county) ==
    CASE county = "New Castle" -> Some("003")
      [] county = "Kent" -> Some("001")
      [] county = "Sussex" -> Some("005")
      [] OTHER -> None

census_try(response) ==
    IF response.exc = "RequestException" THEN Retry("API request failed")
    ELSE IF response.exc = "JSONDecodeError" THEN Retry("JSONDecodeError")
    ELSE IF response.exc # "none" THEN Return(None, "An unexpected error occurred")
    ELSE IF response.len > 1
         THEN Return(Some(IF response.header = "columns" THEN "rows" ELSE "empty"), "")
    ELSE Return(None, "No data found")

census_should_retry(attempt, retries) == attempt < retries - 1

RECURSIVE census_loop(_, _, _)
census_loop(attempt, retries, answers) ==
    IF ~(attempt < retries) THEN FetchResult(None, "", 0, 0)
    ELSE LET t == census_try(answers[attempt + 1]) IN
         IF t.act = "return" THEN FetchResult(t.ret, t.msg, 1, 0)
         ELSE IF census_should_retry(attempt, retries)
              THEN AfterRetry(census_loop(attempt + 1, retries, answers))
              ELSE FetchResult(None, "Max retries reached", 1, 0)

get_census_data_by_county(county, retries, answers) ==
    IF fips_codes(county) = None THEN FetchResult(None, "FIPS code not found", 0, 0)
    ELSE census_loop(0, retries, answers)

-----------------------------------------------------------------------------
(* The answers the provider has ready for one fetcher call: one more than  *)
(* the call may consume, so that a request too many would be answered.     *)

BeaScripts(retries) == [ 1 .. retries + 1 -> BeaResponses ]

CensusScripts(retries) == [ 1 .. retries + 1 -> CensusResponses ]

\* A call made by process_state never asks for the answers that follow the
\* ones it consumed: they are fixed to one value, so that each course of a call
\* is drawn once.
BeaCanonical(s) ==
    [ i \in 1 .. DefaultMaxRetries + 1 |->
        IF i > get_bea_data(DefaultMaxRetries, s).requests
        THEN BeaRaise("RequestException") ELSE s[i] ]

BeaRunScripts == { BeaCanonical(s) : s \in BeaScripts(DefaultMaxRetries) }

CensusCanonical(s) ==
    [ i \in 1 .. DefaultMaxRetries + 1 |->
        IF i > get_census_data_by_county("Kent", DefaultMaxRetries, s).requests
        THEN CensusRaise("RequestException") ELSE s[i] ]

CensusRunScripts == { CensusCanonical(s) : s \in CensusScripts(DefaultMaxRetries) }

-----------------------------------------------------------------------------
(* Geography resolver, truthiness tests and the row transformer *)

\* Variant of get_county_population_data: the county list whatever the state.
get_county_population_data_any_state(s) == Some(DELAWARE_COUNTIES)

\* Both scripts: the county list of Delaware, None for any other state.
get_county_population_data(s) ==
    IF s = "Delaware" THEN Some(DELAWARE_COUNTIES) ELSE None

\* GeoFips of a Delaware county, the geography of its three requests.
geo_fips(county) ==
    CASE county = "New Castle" -> "10003"
      [] county = "Kent" -> "10001"
      [] county = "Sussex" -> "10005"

\* Variant of has_api_key: `if api_key is not None`.
has_api_key_not_none(key) == key # NoKey

\* if api_key: -- neither None nor the empty string.
has_api_key(key) == key # NoKey /\ key # ""

\* if bea_data: / if census_data: -- neither None nor an empty list or dict.
has_data(data) == data # None /\ data # Some("empty")

\* The three BEA fetches made for a county, in the order of the code.
BeaMetrics ==
    << [ DataType |-> "GDP", linecode |-> BEA_LINE_CODE_GDP ],
       [ DataType |-> "GDP_CAPITA", linecode |-> BEA_LINE_CODE_GDP_CAPITA ],
       [ DataType |-> "ANNUAL_GDP_GROWTH", linecode |-> BEA_LINE_CODE_ANNUAL_GDP_GROWTH ] >>

\* The fields of a record of the Data list, whatever they are.
BeaColumns == { "<fields of a Data record>" }

CensusColumns == { "NAME", "B01001_001E", "B01002_001E", "state", "county" }

EducationColumns ==
    { "High School Completion (%)", "Associates Degree / Apprenticeship (%)",
      "Bachelors Degree (%)", "Advanced Degree (%)" }

\* len(pd.DataFrame(bea_data)): the number of records of the Data list.
Records(data) == IF data = Some("rows") THEN payloadRecords ELSE 0

\* A DataFrame: its rows all carry the same County and DataType.
Frame(county, data_type, n, cols) ==
    [ County |-> county, DataType |-> data_type, rows |-> n, columns |-> cols ]

\* Variant of transform_bea_data: the two tags are assigned to each other's column.
transform_bea_data_swapped(bea_data, county, data_type) ==
    IF bea_data = None THEN None
    ELSE Some(Frame(data_type, county, Records(bea_data),
                    BeaColumns \cup { "County", "DataType" }))

transform_bea_data(bea_data, county, data_type) ==
    IF bea_data = None THEN None
    ELSE Some(Frame(county, data_type, Records(bea_data),
                    BeaColumns \cup { "County", "DataType" }))

\* The rows of one DataFrame, each tagged as the frame is.
FrameRows(f) == [ i \in 1 .. f.rows |-> [ County |-> f.County, DataType |-> f.DataType ] ]

RECURSIVE ConcatRows(_)
ConcatRows(frames) ==
    IF frames = << >> THEN << >>
    ELSE FrameRows(Head(frames)) \o ConcatRows(Tail(frames))

\* pd.concat(frames): rows in list order, columns the union of the frames'.
concat(frames) ==
    [ rows |-> ConcatRows(frames),
      columns |-> UNION { frames[i].columns : i \in 1 .. Len(frames) } ]

EmptyDataFrame == [ rows |-> << >>, columns |-> { } ]

\* DataFrame.empty
IsEmpty(df) == df.rows = << >> \/ df.columns = { }

transform_census_data(census_df) ==
    IF census_df = None THEN None
    ELSE LET df == census_df[1] IN
         IF "B01001_001E" \in df.columns
         THEN Some([ rows |-> df.rows,
                     columns |-> (df.columns \ { "B01001_001E" })
                                 \cup { "Total Population", "Area (sq mi)",
                                        "Population Density (per sq mi)" } ])
         ELSE Some(df)

\* What a completed fetcher call is logged as.
Outcome(r) ==
    IF has_data(r.ret) THEN "data"
    ELSE IF r.msg = "Max retries reached" THEN "exhausted"
    ELSE "absent"

LogEntry(county, data_type, geo, r) ==
    [ County |-> county, DataType |-> data_type, GeoFips |-> geo, outcome |-> Outcome(r) ]

-----------------------------------------------------------------------------
(* Initial states: one call from outside, with its arguments *)

NotStarted ==
    /\ pc = "call"
    /\ county_population_df = None
    /\ idx = 1
    /\ metric = 1
    /\ all_county_data = << >>
    /\ final_df = None
    /\ artifact = None
    /\ dirCreated = FALSE
    /\ status = ""
    /\ requests = 0
    /\ sleeps = 0
    /\ result = None
    /\ fetchLog = << >>
    /\ retriedCalls = 0

InitProcessState ==
    /\ entry = "process_state"
    /\ pipeline \in { "BEA", "EDU" }
    /\ state \in States
    /\ api_key \in Keys
    /\ county_name = ""
    /\ max_retries = DefaultMaxRetries
    /\ responses = << >>
    /\ payloadRecords \in 1 .. MaxRecords

InitResolver ==
    /\ entry = "get_county_population_data"
    /\ pipeline \in { "BEA", "EDU" }
    /\ state \in States
    /\ api_key = NoKey
    /\ county_name = ""
    /\ max_retries = DefaultMaxRetries
    /\ responses = << >>
    /\ payloadRecords = 1

InitBeaFetch ==
    /\ entry = "get_bea_data"
    /\ pipeline = "BEA"
    /\ state = "Delaware"
    /\ api_key = "KEY"
    /\ county_name = ""
    /\ max_retries \in 1 .. MaxRetries
    /\ responses \in BeaScripts(max_retries)
    /\ payloadRecords = 1

InitCensusFetch ==
    /\ entry = "get_census_data_by_county"
    /\ pipeline = "EDU"
    /\ state = "Delaware"
    /\ api_key = "KEY"
    /\ county_name \in { "Kent", "Dover" }
    /\ max_retries \in 1 .. MaxRetries
    /\ responses \in CensusScripts(max_retries)
    /\ payloadRecords = 1

Init ==
    /\ InitProcessState \/ InitResolver \/ InitBeaFetch \/ InitCensusFetch
    /\ NotStarted

Inputs == << entry, pipeline, state, api_key, county_name, max_retries, responses,
             payloadRecords >>

Counted(r) == IF r.requests > 1 THEN 1 ELSE 0

-----------------------------------------------------------------------------
(* Direct calls *)

CallResolver ==
    /\ entry = "get_county_population_data"
    /\ pc = "call"
    /\ result' = Some(get_county_population_data(state))
    /\ pc' = "done"
    /\ UNCHANGED << Inputs, county_population_df, idx, metric, all_county_data,
                    final_df, artifact, dirCreated, status, requests, sleeps, fetchLog,
                    retriedCalls >>

CallBea ==
    /\ entry = "get_bea_data"
    /\ pc = "call"
    /\ LET r == get_bea_data(max_retries, responses) IN
         /\ result' = Some(r)
         /\ requests' = requests + r.requests
         /\ sleeps' = sleeps + r.sleeps
    /\ pc' = "done"
    /\ UNCHANGED << Inputs, county_population_df, idx, metric, all_county_data,
                    final_df, artifact, dirCreated, status, fetchLog, retriedCalls >>

CallCensus ==
    /\ entry = "get_census_data_by_county"
    /\ pc = "call"
    /\ LET r == get_census_data_by_county(county_name, max_retries, responses) IN
         /\ result' = Some(r)
         /\ requests' = requests + r.requests
         /\ sleeps' = sleeps + r.sleeps
    /\ pc' = "done"
    /\ UNCHANGED << Inputs, county_population_df, idx, metric, all_county_data,
                    final_df, artifact, dirCreated, status, fetchLog, retriedCalls >>

-----------------------------------------------------------------------------
(* process_state, Business Index *)

Counties == county_population_df[1]

\* The state check and the county list.
BeaResolve ==
    /\ entry = "process_state" /\ pipeline = "BEA"
    /\ pc = "call"
    /\ IF state = "Delaware"
       THEN /\ county_population_df' = get_county_population_data(state)
            /\ IF county_population_df' = None
               THEN pc' = "done" /\ status' = "Could not fetch county population data"
               ELSE pc' = "loop" /\ status' = status
       ELSE /\ county_population_df' = county_population_df
            /\ pc' = "done"
            /\ status' = "not yet implemented"
    /\ UNCHANGED << Inputs, idx, metric, all_county_data, final_df, artifact,
                    dirCreated, requests, sleeps, result, fetchLog, retriedCalls >>

\* A county is reached with no API key: process_state returns.
BeaMissingKey ==
    /\ entry = "process_state" /\ pipeline = "BEA"
    /\ pc = "loop"
    /\ idx <= Len(Counties)
    /\ metric = 1
    /\ ~has_api_key(api_key)
    /\ status' = "API key is required"
    /\ pc' = "done"
    /\ UNCHANGED << Inputs, county_population_df, idx, metric, all_county_data,
                    final_df, artifact, dirCreated, requests, sleeps, result, fetchLog, retriedCalls >>

\* Variant of bea_collect: the frame is inserted at the front of the list.
bea_collect_prepend(frames, bea_data, county, data_type) ==
    IF has_data(bea_data)
    THEN LET t == transform_bea_data(bea_data, county, data_type) IN
         IF t # None THEN << t[1] >> \o frames ELSE frames
    ELSE frames

\* if bea_data: transform it and append the frame, else skip the unit.
bea_collect(frames, bea_data, county, data_type) ==
    IF has_data(bea_data)
    THEN LET t == transform_bea_data(bea_data, county, data_type) IN
         IF t # None THEN Append(frames, t[1]) ELSE frames
    ELSE frames

\* One fetch of a county: get_bea_data, the truthiness test, the transform
\* and the append.  The three metrics of a county follow one another.
BeaUnit ==
    /\ entry = "process_state" /\ pipeline = "BEA"
    /\ pc = "loop"
    /\ idx <= Len(Counties)
    /\ has_api_key(api_key)
    /\ \E script \in BeaRunScripts :
         LET county == Counties[idx]
             kind == BeaMetrics[metric]
             r == get_bea_data(DefaultMaxRetries, script)
         IN /\ sleeps + r.sleeps <= MaxSleeps
            /\ requests' = requests + r.requests
            /\ sleeps' = sleeps + r.sleeps
            /\ all_county_data' = bea_collect(all_county_data, r.ret, county, kind.DataType)
            /\ fetchLog' = Append(fetchLog, LogEntry(county, kind.DataType, geo_fips(county), r))
            /\ retriedCalls' = retriedCalls + Counted(r)
    /\ IF metric < Len(BeaMetrics)
       THEN metric' = metric + 1 /\ idx' = idx
       ELSE metric' = 1 /\ idx' = idx + 1
    /\ UNCHANGED << Inputs, pc, county_population_df, final_df, artifact,
                    dirCreated, status, result >>

\* After the loop: pd.concat of the frames, or an empty DataFrame.
BeaConcat ==
    /\ entry = "process_state" /\ pipeline = "BEA"
    /\ pc = "loop"
    /\ idx > Len(Counties)
    /\ final_df' = IF all_county_data # << >> THEN Some(concat(all_county_data))
                   ELSE Some(EmptyDataFrame)
    /\ pc' = "save"
    /\ UNCHANGED << Inputs, county_population_df, idx, metric, all_county_data,
                    artifact, dirCreated, status, requests, sleeps, result, fetchLog, retriedCalls >>

\* to_excel when the table is not empty, a message otherwise.
BeaSave ==
    /\ entry = "process_state" /\ pipeline = "BEA"
    /\ pc = "save"
    /\ IF ~IsEmpty(final_df[1])
       THEN artifact' = final_df /\ status' = "County-wise dataset stored"
       ELSE artifact' = artifact /\ status' = "No data to save"
    /\ pc' = "done"
    /\ UNCHANGED << Inputs, county_population_df, idx, metric, all_county_data,
                    final_df, dirCreated, requests, sleeps, result, fetchLog, retriedCalls >>

-----------------------------------------------------------------------------
(* process_state, EducationIndex *)

EduResolve ==
    /\ entry = "process_state" /\ pipeline = "EDU"
    /\ pc = "call"
    /\ dirCreated' = TRUE
    /\ IF state = "Delaware"
       THEN /\ county_population_df' = get_county_population_data(state)
            /\ IF county_population_df' = None
               THEN pc' = "done" /\ status' = "Could not fetch county population data"
               ELSE pc' = "loop" /\ status' = status
       ELSE /\ county_population_df' = county_population_df
            /\ pc' = "done"
            /\ status' = "not yet implemented"
    /\ UNCHANGED << Inputs, idx, metric, all_county_data, final_df, artifact,
                    requests, sleeps, result, fetchLog, retriedCalls >>

EduMissingKey ==
    /\ entry = "process_state" /\ pipeline = "EDU"
    /\ pc = "loop"
    /\ idx <= Len(Counties)
    /\ ~has_api_key(api_key)
    /\ status' = "API key is required"
    /\ pc' = "done"
    /\ UNCHANGED << Inputs, county_population_df, idx, metric, all_county_data,
                    final_df, artifact, dirCreated, requests, sleeps, result, fetchLog, retriedCalls >>

\* if census_data: a one-row frame of the census fields, the county and the
\* education constants is appended, else the county is skipped.
edu_collect(frames, census_data, county) ==
    IF has_data(census_data)
    THEN Append(frames, Frame(county, "", 1,
                              CensusColumns \cup { "County" } \cup EducationColumns))
    ELSE frames

EduUnit ==
    /\ entry = "process_state" /\ pipeline = "EDU"
    /\ pc = "loop"
    /\ idx <= Len(Counties)
    /\ has_api_key(api_key)
    /\ \E script \in CensusRunScripts :
         LET county == Counties[idx]
             r == get_census_data_by_county(county, DefaultMaxRetries, script)
         IN /\ sleeps + r.sleeps <= MaxSleeps
            /\ requests' = requests + r.requests
            /\ sleeps' = sleeps + r.sleeps
            /\ all_county_data' = edu_collect(all_county_data, r.ret, county)
            /\ fetchLog' = Append(fetchLog, LogEntry(county, "", << "10", fips_codes(county)[1] >>, r))
            /\ retriedCalls' = retriedCalls + Counted(r)
    /\ idx' = idx + 1
    /\ UNCHANGED << Inputs, pc, county_population_df, metric, final_df, artifact,
                    dirCreated, status, result >>

\* After the loop: pd.concat(all_county_data), which raises ValueError on an
\* empty list, then transform_census_data.
EduConcat ==
    /\ entry = "process_state" /\ pipeline = "EDU"
    /\ pc = "loop"
    /\ idx > Len(Counties)
    /\ IF all_county_data = << >>
       THEN /\ pc' = "raised"
            /\ status' = "ValueError: No objects to concatenate"
            /\ final_df' = final_df
       ELSE /\ pc' = "save"
            /\ status' = status
            /\ final_df' = transform_census_data(Some(concat(all_county_data)))
    /\ UNCHANGED << Inputs, county_population_df, idx, metric, all_county_data,
                    artifact, dirCreated, requests, sleeps, result, fetchLog, retriedCalls >>

EduSave ==
    /\ entry = "process_state" /\ pipeline = "EDU"
    /\ pc = "save"
    /\ IF final_df # None /\ ~IsEmpty(final_df[1])
       THEN artifact' = final_df /\ status' = "County-wise dataset stored"
       ELSE artifact' = artifact /\ status' = "No data to save"
    /\ pc' = "done"
    /\ UNCHANGED << Inputs, county_population_df, idx, metric, all_county_data,
                    final_df, dirCreated, requests, sleeps, result, fetchLog, retriedCalls >>

-----------------------------------------------------------------------------

Next ==
    \/ CallResolver
    \/ CallBea
    \/ CallCensus
    \/ BeaResolve
    \/ BeaMissingKey
    \/ BeaUnit
    \/ BeaConcat
    \/ BeaSave
    \/ EduResolve
    \/ EduMissingKey
    \/ EduUnit
    \/ EduConcat
    \/ EduSave

Spec == Init /\ [][Next]_vars

-----------------------------------------------------------------------------
(* Vocabulary of the properties *)

\* A transient failure: a transport error or an unparseable body.
Transient(response) == response.exc \in { "RequestException", "JSONDecodeError" }

\* A BEA answer that carries a Data list, and the payload it carries.
BeaSuccess(response) ==
    response.exc = "none" /\ response.BEAAPI /\ response.Results /\ response.Data # "missing"

\* A parseable BEA answer that carries no Data list: a provider error, or a
\* body without the BEAAPI / Results / Data keys.
BeaNoData(response) == response.exc = "none" /\ ~BeaSuccess(response)

\* A Census answer with a row beyond the header.
CensusSuccess(response) == response.exc = "none" /\ response.len > 1

DirectBea == entry = "get_bea_data"

DirectCensus == entry = "get_census_data_by_county"

DirectFetch == DirectBea \/ DirectCensus

\* A direct fetcher call that gets as far as its retry loop.
Fetching == DirectBea \/ (DirectCensus /\ county_name \in { "New Castle", "Kent", "Sussex" })

Success(response) == IF DirectBea THEN BeaSuccess(response) ELSE CensusSuccess(response)

Payload(response) ==
    IF DirectBea THEN Some(response.Data)
    ELSE Some(IF response.header = "columns" THEN "rows" ELSE "empty")

\* The first n answers are transient failures and the next one is a success.
FailuresThenSuccess(n) ==
    /\ \A i \in 1 .. n : Transient(responses[i])
    /\ Success(responses[n + 1])

Run == entry = "process_state"

BeaRun == Run /\ pipeline = "BEA"

EduRun == Run /\ pipeline = "EDU"

\* The region/metric units of a run, in the order the code visits them.
BeaUnits ==
    [ k \in 1 .. Len(DELAWARE_COUNTIES) * Len(BeaMetrics) |->
        [ County |-> DELAWARE_COUNTIES[((k - 1) \div Len(BeaMetrics)) + 1],
          DataType |-> BeaMetrics[((k - 1) % Len(BeaMetrics)) + 1].DataType ] ]

EduUnits == [ k \in 1 .. Len(DELAWARE_COUNTIES) |-> [ County |-> DELAWARE_COUNTIES[k], DataType |-> "" ] ]

Units == IF pipeline = "BEA" THEN BeaUnits ELSE EduUnits

Tag(x) == [ County |-> x.County, DataType |-> x.DataType ]

\* Position of a tagged frame or row in the visiting order, 0 when it is of no unit.
UnitIndex(x) ==
    IF \E k \in DOMAIN BeaUnits : BeaUnits[k] = Tag(x)
    THEN CHOOSE k \in DOMAIN BeaUnits : BeaUnits[k] = Tag(x)
    ELSE 0

\* Every unit of the run was fetched.
AllFetched == Len(fetchLog) = Len(Units)

IsPrefix(s, t) == Len(s) <= Len(t) /\ \A i \in 1 .. Len(s) : s[i] = t[i]

Tags(rows) == { Tag(rows[i]) : i \in 1 .. Len(rows) }

-----------------------------------------------------------------------------
(* C1: a fetcher call issues at most max_retries GET requests, whatever the
   provider answers, and it returns: a payload or None.  A call made by
   process_state uses the default of three attempts. *)
C1_AtMostMaxRetries ==
    /\ (DirectBea /\ pc = "call") => ENABLED CallBea
    /\ (DirectCensus /\ pc = "call") => ENABLED CallCensus
    /\ (DirectFetch /\ pc = "done") =>
          /\ result # None
          /\ requests <= max_retries
          /\ result[1].requests = requests
          /\ result[1].ret \in { None, Some("rows"), Some("empty") }
    /\ Run => requests <= DefaultMaxRetries * Len(fetchLog)

C1_Witness ==
    /\ DirectFetch /\ pc = "done"
    /\ max_retries = 3
    /\ requests = 3
    /\ \A i \in 1 .. 3 : Transient(responses[i])
    /\ result[1].ret = None

(* C2, as amended: N transient failures followed by a success, N < max_retries,
   return the successful payload after exactly N sleeps and N + 1 requests;
   max_retries transient failures end the call with None after
   max_retries - 1 sleeps, whatever the provider would have answered next. *)
C2_SleepsEqualFailures ==
    (Fetching /\ pc = "done") =>
        \A n \in 0 .. max_retries :
            FailuresThenSuccess(n) =>
                IF n < max_retries
                THEN /\ result[1].ret = Payload(responses[n + 1])
                     /\ sleeps = n
                     /\ requests = n + 1
                ELSE /\ result[1].ret = None
                     /\ sleeps = max_retries - 1
                     /\ requests = max_retries

C2_Witness ==
    /\ Fetching /\ pc = "done"
    /\ max_retries = 3
    /\ FailuresThenSuccess(2)
    /\ result[1].ret = Some("rows")
    /\ sleeps = 2

(* C2 as stated: for 1 <= N <= max_retries, N transient failures followed by a
   success return the successful payload after exactly N - 1 sleeps. *)
C2_AsStated ==
    (Fetching /\ pc = "done") =>
        \A n \in 1 .. max_retries :
            FailuresThenSuccess(n) =>
                /\ result[1].ret = Payload(responses[n + 1])
                /\ sleeps = n - 1

(* C3: in get_bea_data a parseable answer without data (a provider error, or a
   body missing the BEAAPI / Results / Data keys) ends the call at that
   attempt: None is returned, no request follows it and no sleep follows it;
   as the first answer it makes the call a single attempt. *)
C3_NoRetryOnParseableNoData ==
    (DirectBea /\ pc = "done") =>
        \A k \in 1 .. max_retries :
            ( /\ \A i \in 1 .. k - 1 : Transient(responses[i])
              /\ BeaNoData(responses[k]) )
            => /\ result[1].ret = None
               /\ requests = k
               /\ sleeps = k - 1

C3_Witness ==
    /\ DirectBea /\ pc = "done"
    /\ max_retries = 3
    /\ responses[1] = BeaJson(TRUE, TRUE, "missing", TRUE)
    /\ requests = 1
    /\ sleeps = 0
    /\ result[1].ret = None

(* C4: process_state for the supported state without a credential (None or
   the empty string), in either script: no request is issued, no frame is
   collected, no county after the first is visited, nothing is fetched, no
   spreadsheet is written, and the call returns from the first county. *)
C4_MissingCredential ==
    (Run /\ state = "Delaware" /\ api_key \in { NoKey, "" }) =>
        /\ requests = 0
        /\ sleeps = 0
        /\ all_county_data = << >>
        /\ fetchLog = << >>
        /\ artifact = None
        /\ idx = 1
        /\ pc \in { "call", "loop", "done" }
        /\ pc = "loop" => ENABLED (BeaMissingKey \/ EduMissingKey)
        /\ pc = "done" => status = "API key is required"

C4_Witness ==
    /\ Run /\ state = "Delaware" /\ api_key = ""
    /\ pc = "done"
    /\ status = "API key is required"
    /\ county_population_df = Some(DELAWARE_COUNTIES)

(* C5: in each script a run of process_state in which every fetch yields
   absence, so that no frame is collected, ends normally by the skip branch:
   no error is raised, no spreadsheet is written and "No ... data to save"
   is reported. *)
C5_ZeroRowsSkip ==
    (Run /\ AllFetched /\ all_county_data = << >> /\ pc \in { "save", "done", "raised" }) =>
        /\ pc # "raised"
        /\ artifact = None
        /\ pc = "done" => status = "No data to save"

(* C6: a BEA run with the default of three attempts in which exactly one
   fetch fails transiently on every attempt and every other fetch returns data
   on its first attempt: exactly two sleeps, the failed region/metric is not
   in the final table and every other one is. *)
C6_OneExhaustedUnit ==
    (BeaRun /\ pc = "done" /\ AllFetched) =>
        \A k \in DOMAIN fetchLog :
            ( /\ fetchLog[k].outcome = "exhausted"
              /\ \A j \in DOMAIN fetchLog \ { k } : fetchLog[j].outcome = "data"
              /\ retriedCalls = 1 )
            => /\ sleeps = 2
               /\ final_df # None
               /\ artifact = final_df
               /\ Tags(final_df[1].rows) = { BeaUnits[j] : j \in DOMAIN BeaUnits \ { k } }
               /\ Tag(fetchLog[k]) = BeaUnits[k]

C6_Witness ==
    /\ BeaRun /\ pc = "done" /\ AllFetched
    /\ fetchLog[5].outcome = "exhausted"
    /\ \A j \in DOMAIN fetchLog \ { 5 } : fetchLog[j].outcome = "data"
    /\ retriedCalls = 1
    /\ sleeps = 2
    /\ Len(all_county_data) = 8

(* C7: a BEA run for New Castle, Kent, Sussex with a credential in which
   every fetch returns a one-record payload on its first attempt: the
   spreadsheet holds exactly nine rows, one per region and metric in the
   order of the requests, each tagged with the region and the metric of its
   request; nine requests were issued and there was no sleep. *)
C7_NineRows ==
    ( /\ BeaRun /\ pc = "done" /\ AllFetched
      /\ payloadRecords = 1
      /\ \A j \in DOMAIN fetchLog : fetchLog[j].outcome = "data"
      /\ retriedCalls = 0 )
    => /\ artifact # None
       /\ Len(artifact[1].rows) = 9
       /\ \A k \in 1 .. 9 : artifact[1].rows[k] = BeaUnits[k]
       /\ \A k \in 1 .. 9 : artifact[1].rows[k] = Tag(fetchLog[k])
       /\ { "County", "DataType" } \subseteq artifact[1].columns
       /\ requests = 9
       /\ sleeps = 0

C7_Witness ==
    /\ BeaRun /\ pc = "done" /\ AllFetched
    /\ payloadRecords = 1
    /\ \A j \in DOMAIN fetchLog : fetchLog[j].outcome = "data"
    /\ retriedCalls = 0
    /\ artifact # None
    /\ Len(artifact[1].rows) = 9

(* C8: for a state other than Delaware, with or without a credential,
   get_county_population_data returns None and process_state ends without a
   request and without a spreadsheet; the state is checked before the
   credential, so the message is the one of the unsupported state. *)
C8_UnsupportedState ==
    /\ (entry = "get_county_population_data" /\ state # "Delaware" /\ pc = "done") =>
          /\ result = Some(None)
          /\ requests = 0
    /\ (Run /\ state # "Delaware") =>
          /\ requests = 0
          /\ fetchLog = << >>
          /\ artifact = None
          /\ county_population_df = None
          /\ pc \in { "call", "done" }
          /\ pc = "call" => ENABLED (BeaResolve \/ EduResolve)
          /\ pc = "done" => status = "not yet implemented"

C8_Witness ==
    /\ Run /\ state = "Ohio" /\ api_key = NoKey
    /\ pc = "done"
    /\ status = "not yet implemented"

\* The frames of all_county_data are of distinct units, in visiting order.
Ordered(frames) ==
    /\ \A i \in 1 .. Len(frames) : UnitIndex(frames[i]) > 0
    /\ \A i, j \in 1 .. Len(frames) : i < j => UnitIndex(frames[i]) < UnitIndex(frames[j])

(* C9: throughout a BEA run all_county_data holds each region/metric at most
   once, in region order and within a region in the order GDP, GDP_CAPITA,
   ANNUAL_GDP_GROWTH, and it only grows at its end: no frame is removed or
   moved. *)
C9_OrderedAppendOnly ==
    /\ [](BeaRun => Ordered(all_county_data))
    /\ [][BeaRun => IsPrefix(all_county_data, all_county_data')]_vars

C9_Witness ==
    /\ BeaRun /\ pc = "done"
    /\ Len(all_county_data) = 7
    /\ fetchLog[1].outcome = "absent"
    /\ fetchLog[6].outcome = "exhausted"

(* C10: in each script, with the supported state and a credential, no failure
   of a unit escapes: the run never ends by an error, every unit is fetched
   whatever the earlier ones gave, the frames are concatenated, exactly one
   of export and skip is taken and the run is done. *)
C10_FailuresContained ==
    (Run /\ state = "Delaware" /\ api_key = "KEY") =>
        /\ pc # "raised"
        /\ pc \in { "save", "done" } => AllFetched /\ final_df # None
        /\ pc = "done" =>
              \/ artifact # None /\ status = "County-wise dataset stored"
              \/ artifact = None /\ status = "No data to save"
        /\ pc \in { "call", "loop", "save" } => ENABLED Next

====
